---- MODULE Spec2Model ----
(***************************************************************************)
(* Model of scan.py (Monocle): the teardown sequence cleanup(), the start  *)
(* of main() with its shared-state manager and signal handling, and the    *)
(* CustomQueue.full_wait operation on top of queue.Queue.                  *)
(***************************************************************************)
EXTENDS Integers, Sequences, FiniteSets, TLC

VARIABLES
    \* ---- cleanup(overseer, manager), scan.py:238-283
    pc,          \* position of the coordinator: "main" or the line cleanup() is at
    running,     \* overseer.running
    tasks,       \* tasks scheduled on LOOP that have not completed
    clock,       \* time elapsed inside asyncio.wait_for(gathered, 40)
    awaited,     \* how run_until_complete ended: none/finished/timeout/error
    cacheCells,  \* conf.CACHE_CELLS
    dbq,         \* DB_PROC.queue.qsize()
    pending,     \* local `pending` of the drain poll (line 272)
    calls,       \* the collaborator calls made so far, in order
    exc,         \* exception that left the try body and is held by the finally
    raised,      \* exception that left cleanup(): "none" or its kind
    \* ---- CustomQueue (queue.Queue with full_wait), scan.py:147-167
    queue,       \* self.queue, the items in FIFO order
    nput,        \* number of completed put() calls; the next item is nput + 1
    got,         \* the items get() has returned, in order
    tpc,         \* per thread: "idle" or the line its call is at
    maxsize,     \* per thread: argument of the full_wait call in progress
    timeout,     \* per thread: argument of the call, <<>> for None, <<n>> for n
    remaining,   \* per thread: endtime - time.monotonic() (lines 159, 161)
    res,         \* per thread: how its last call ended
    \* ---- main(), scan.py:312-326, the coordinator that holds the endpoint
    platform,    \* sys.platform: "win32" or not (line 318)
    launcher,    \* the task of line 316: pending/cancelling/finished/failed/cancelled
    sigs,        \* SIGINT/SIGTERM delivered to the coordinator so far
    cleanups,    \* number of calls of cleanup()
    \* ---- main(), scan.py:297-310, one entry per process started on the host
    mpc,         \* per process: the line of main() it is at, "failed" or "exited"
    mapWorkers,  \* per process: conf.MAP_WORKERS
    registry,    \* per process: the typeids registered with AccountManager
    bound,       \* the processes whose server holds the address
    server,      \* per process: its manager's server process: none/up/dead/stopped
    ignored,     \* per process: the signals its server process ignores
    delivered,   \* per process: the signals delivered to its server process
    overseer,    \* per process: Overseer(manager) was created and started
    launched,    \* per process: the launcher task was scheduled
    cleaned,     \* per process: cleanup() was called
    startError,  \* per process: the exception main() raised
    lookup       \* the last lookup a client made: process, typeid, result

cvars == <<pc, running, tasks, clock, awaited, cacheCells, dbq, pending, calls, exc, raised>>

qvars == <<queue, nput, got, tpc, maxsize, timeout, remaining, res>>

mvars == <<platform, launcher, sigs, cleanups>>

svars == <<mpc, mapWorkers, registry, bound, server, ignored, delivered, overseer,
           launched, cleaned, startError, lookup>>

vars == <<cvars, qvars, mvars, svars>>

\* ---------------------------------------------------------------- bounds
MaxTasks == 2
MaxDB == 2
MaxPuts == 3
\* signals delivered to one process
MaxSignals == 2
\* the threshold N the producers that wait before every put agree on
Threshold == 1

\* asyncio.wait_for(gathered, 40)
AWAIT_TIMEOUT == 40

\* Python exceptions by what `except Exception` catches: subclasses of
\* Exception, and the rest of BaseException (KeyboardInterrupt, SystemExit).
Kinds == {"Exception", "BaseException"}

\* `except Exception as e:` (lines 253, 269)
ExceptException(e) == e = "Exception"

\* ---------------------------------------------------------------- DrainState
Order == <<"Running", "Cancelling", "AwaitingTasks", "Persisting",
           "DrainingWrites", "ClosingResources", "Done">>

DrainStateAt(l) ==
    CASE l = "main" -> "Running"
      [] l = "l240" -> "Cancelling"
      [] l \in {"l246", "l250"} -> "AwaitingTasks"
      [] l \in {"l257", "l260", "l261", "l263"} -> "Persisting"
      [] l \in {"l265", "l268", "l271", "l276"} -> "DrainingWrites"
      [] l \in {"l279", "l280", "l281", "l282", "aborted"} -> "ClosingResources"
      [] l = "done" -> "Done"

DrainState == DrainStateAt(pc)

Rank(s) == CHOOSE i \in 1..Len(Order) : Order[i] = s

\* the step each collaborator call belongs to
StepOf(c) ==
    CASE c = "running=False" -> "Cancelling"
      [] c \in {"create_task", "run_until_complete"} -> "AwaitingTasks"
      [] c \in {"refresh_dict", "dump_accounts", "FORT_CACHE.pickle", "dump_cells"} -> "Persisting"
      [] c \in {"DB_PROC.stop", "SPAWNS.update", "queue.empty", "sleep"} -> "DrainingWrites"
      [] c \in {"manager.shutdown", "SessionManager.close", "close_sessions", "LOOP.close"} -> "ClosingResources"

Called(c) == \E i \in 1..Len(calls) : calls[i] = c

\* every call is logged; the passes of the drain poll (lines 271-276), which
\* repeat without bound, are logged once
Log(c) == IF c \in {"queue.empty", "sleep"} /\ Called(c) THEN calls ELSE Append(calls, c)

\* ---------------------------------------------------------------- cleanup
TypeOK ==
    /\ pc \in {"main", "l240", "l246", "l250", "l257", "l260", "l261", "l263", "l265",
               "l268", "l271", "l276", "l279", "l280", "l281", "l282", "aborted", "done"}
    /\ running \in BOOLEAN
    /\ tasks \in 0..(MaxTasks + 1)
    /\ clock \in 0..AWAIT_TIMEOUT
    /\ awaited \in {"none", "finished", "timeout", "error"}
    /\ cacheCells \in BOOLEAN
    /\ dbq \in 0..MaxDB
    /\ pending \in 0..MaxDB
    /\ exc \in Kinds \cup {"none"}
    /\ raised \in Kinds \cup {"none"}
    /\ platform \in {"posix", "win32"}
    /\ launcher \in {"pending", "cancelling", "finished", "failed", "cancelled"}
    /\ sigs \in 0..MaxSignals
    /\ cleanups \in 0..1

\* main() at line 322: the launcher task is scheduled and the loop runs it
MInit ==
    /\ platform \in {"posix", "win32"}
    /\ launcher = "pending"
    /\ sigs = 0
    /\ cleanups = 0

CInit ==
    /\ pc = "main"
    /\ running = TRUE
    /\ tasks \in 0..MaxTasks
    /\ clock = 0
    /\ awaited = "none"
    /\ cacheCells \in BOOLEAN
    /\ dbq \in 0..MaxDB
    /\ pending = 0
    /\ calls = <<>>
    /\ exc = "none"
    /\ raised = "none"

\* a teardown without the try/finally: the exception leaves cleanup() at once
NoFinally(e) ==
    /\ pc' = "aborted"
    /\ exc' = e

\* try: ... finally: (lines 239, 277): an exception leaving the try body
\* enters the finally block, which holds it until the block ends.
Finally(e) ==
    /\ pc' = "l279"
    /\ exc' = e

\* a statement of the try body that is in no inner try: it completes and
\* control goes to `next`, or it raises and the exception leaves the body
Stmt(at, call, next) ==
    /\ pc = at
    /\ calls' = Log(call)
    /\ \/ pc' = next /\ exc' = exc
       \/ \E e \in Kinds : Finally(e)

\* launcher.cancel() (lines 319, 320, 324): asks a pending task to cancel and
\* does nothing to a task that is cancelling or done
CancelTask(l) == IF l = "pending" THEN "cancelling" ELSE l

\* LOOP.run_until_complete(launcher) (line 322) has returned or raised
LauncherDone == launcher \in {"finished", "failed", "cancelled"}

\* the event loop runs the launcher to its end: it returns, raises, or is
\* cancelled once cancellation was asked for
LauncherEnds ==
    /\ pc \in {"main", "l250"}
    /\ ~LauncherDone
    /\ launcher' \in (IF launcher = "pending" THEN {"finished", "failed"}
                                            ELSE {"finished", "failed", "cancelled"})
    /\ UNCHANGED <<cvars, qvars, platform, sigs, cleanups, svars>>

\* main() lines 321-326: run_until_complete(launcher) is over, whether it
\* returned or raised; finally: cleanup(overseer, manager)
CallCleanup ==
    /\ pc = "main"
    /\ LauncherDone
    /\ pc' = "l240"
    /\ cleanups' = cleanups + 1
    /\ UNCHANGED <<running, tasks, clock, awaited, cacheCells, dbq, pending, calls, exc, raised, qvars, platform, launcher, sigs, svars>>

\* the event loop runs a task to completion (while main() or cleanup() runs it)
TaskDone ==
    /\ pc \in {"main", "l250"}
    /\ tasks > 0
    /\ tasks' = tasks - 1
    /\ UNCHANGED <<pc, running, clock, awaited, cacheCells, dbq, pending, calls, exc, raised, qvars, mvars, svars>>

\* a running task hands a job to the database writer
DbAdd ==
    /\ pc \in {"main", "l250"}
    /\ tasks > 0
    /\ dbq < MaxDB
    /\ dbq' = dbq + 1
    /\ UNCHANGED <<pc, running, tasks, clock, awaited, cacheCells, pending, calls, exc, raised, qvars, mvars, svars>>

\* the database writer (its own thread) takes a job off DB_PROC.queue
DbWrite ==
    /\ dbq > 0
    /\ dbq' = dbq - 1
    /\ UNCHANGED <<pc, running, tasks, clock, awaited, cacheCells, pending, calls, exc, raised, qvars, mvars, svars>>

\* lines 240-244: overseer.running = False; log = get_logger('cleanup')
Cancel ==
    /\ pc = "l240"
    /\ running' = FALSE
    /\ calls' = Log("running=False")
    /\ \/ pc' = "l246" /\ exc' = exc
       \/ \E e \in Kinds : Finally(e)
    /\ UNCHANGED <<tasks, clock, awaited, cacheCells, dbq, pending, raised, qvars, mvars, svars>>

\* lines 246-248: create_task(overseer.exit_progress()); all_tasks; gather
Gather ==
    /\ Stmt("l246", "create_task", "l250")
    /\ tasks' = IF pc' = "l250" THEN tasks + 1 ELSE tasks
    /\ UNCHANGED <<running, clock, awaited, cacheCells, dbq, pending, raised, qvars, mvars, svars>>

\* time passes while wait_for is pending
Tick ==
    /\ pc = "l250"
    /\ clock < AWAIT_TIMEOUT
    /\ clock' = clock + 1
    /\ UNCHANGED <<pc, running, tasks, awaited, cacheCells, dbq, pending, calls, exc, raised, qvars, mvars, svars>>

\* a teardown that gathers and awaits again after the deadline
AwaitEndsRetry(outcome, e) ==
    /\ awaited' = outcome
    /\ clock' = 0
    /\ IF outcome = "error" /\ ~ExceptException(e)
       THEN Finally(e)
       ELSE pc' = (IF outcome = "timeout" THEN "l246" ELSE "l257") /\ exc' = exc

\* lines 249-255: how LOOP.run_until_complete(asyncio.wait_for(gathered, 40)) ends
AwaitEnds(outcome, e) ==
    /\ awaited' = outcome
    /\ clock' = 0
    /\ IF outcome = "error" /\ ~ExceptException(e)
       THEN Finally(e)
       ELSE pc' = "l257" /\ exc' = exc

Await ==
    /\ pc = "l250"
    /\ calls' = Log("run_until_complete")
    /\ \/ tasks = 0 /\ AwaitEnds("finished", "none")
       \/ tasks > 0 /\ clock = AWAIT_TIMEOUT /\ AwaitEnds("timeout", "none")
       \/ \E e \in Kinds : AwaitEnds("error", e)
    /\ UNCHANGED <<running, tasks, cacheCells, dbq, pending, raised, qvars, mvars, svars>>

\* line 257
RefreshDict ==
    /\ Stmt("l257", "refresh_dict", "l260")
    /\ UNCHANGED <<running, tasks, clock, awaited, cacheCells, dbq, pending, raised, qvars, mvars, svars>>

\* line 260
DumpAccounts ==
    /\ Stmt("l260", "dump_accounts", "l261")
    /\ UNCHANGED <<running, tasks, clock, awaited, cacheCells, dbq, pending, raised, qvars, mvars, svars>>

\* lines 261-262: FORT_CACHE.pickle(); if conf.CACHE_CELLS:
PickleForts ==
    /\ Stmt("l261", "FORT_CACHE.pickle", IF cacheCells THEN "l263" ELSE "l265")
    /\ UNCHANGED <<running, tasks, clock, awaited, cacheCells, dbq, pending, raised, qvars, mvars, svars>>

\* line 263
DumpCells ==
    /\ Stmt("l263", "dump_cells", "l265")
    /\ UNCHANGED <<running, tasks, clock, awaited, cacheCells, dbq, pending, raised, qvars, mvars, svars>>

\* line 265
StopDb ==
    /\ Stmt("l265", "DB_PROC.stop", "l268")
    /\ UNCHANGED <<running, tasks, clock, awaited, cacheCells, dbq, pending, raised, qvars, mvars, svars>>

\* lines 267-270: try: SPAWNS.update() except Exception: log.warning
UpdateSpawns ==
    /\ pc = "l268"
    /\ calls' = Log("SPAWNS.update")
    /\ \/ pc' = "l271" /\ exc' = exc
       \/ \E e \in Kinds : IF ExceptException(e) THEN pc' = "l271" /\ exc' = exc
                                                 ELSE Finally(e)
    /\ UNCHANGED <<running, tasks, clock, awaited, cacheCells, dbq, pending, raised, qvars, mvars, svars>>

\* line 271: while not DB_PROC.queue.empty()
PollAgain(n) == n # 0

\* lines 271-275: the loop test; if it holds, pending = DB_PROC.queue.qsize()
DrainPoll ==
    /\ pc = "l271"
    /\ calls' = Log("queue.empty")
    /\ IF PollAgain(dbq)
       THEN pending' = dbq /\ pc' = "l276"
       ELSE pending' = pending /\ pc' = "l279"
    /\ UNCHANGED <<running, tasks, clock, awaited, cacheCells, dbq, exc, raised, qvars, mvars, svars>>

\* line 276: time.sleep(.5), which an interrupt (KeyboardInterrupt) may end
Sleep ==
    /\ pc = "l276"
    /\ calls' = Log("sleep")
    /\ \/ pc' = "l271" /\ exc' = exc
       \/ Finally("BaseException")
    /\ UNCHANGED <<running, tasks, clock, awaited, cacheCells, dbq, pending, raised, qvars, mvars, svars>>

\* a statement of the finally block: it completes, or it raises and the
\* exception leaves cleanup() with the rest of the block not run
Release(at, call, next) ==
    /\ pc = at
    /\ calls' = Log(call)
    /\ \/ pc' = next /\ raised' = (IF next = "done" THEN exc ELSE raised)
       \/ \E e \in Kinds : pc' = "aborted" /\ raised' = e
    /\ UNCHANGED <<running, tasks, clock, awaited, cacheCells, dbq, pending, exc, qvars, mvars, svars>>

\* line 279
ManagerShutdown == Release("l279", "manager.shutdown", "l280")
\* line 280
SessionClose == Release("l280", "SessionManager.close", "l281")
\* line 281
CloseSessions == Release("l281", "close_sessions", "l282")
\* lines 282-283: LOOP.close(); print('Done.'); a held exception is re-raised
LoopClose == Release("l282", "LOOP.close", "done")

\* the call that the statement at line l makes
CallAt(l) ==
    CASE l = "l240" -> "running=False"
      [] l = "l246" -> "create_task"
      [] l = "l250" -> "run_until_complete"
      [] l = "l257" -> "refresh_dict"
      [] l = "l260" -> "dump_accounts"
      [] l = "l261" -> "FORT_CACHE.pickle"
      [] l = "l263" -> "dump_cells"
      [] l = "l265" -> "DB_PROC.stop"
      [] l = "l268" -> "SPAWNS.update"
      [] l = "l271" -> "queue.empty"
      [] l = "l276" -> "sleep"
      [] l = "l279" -> "manager.shutdown"
      [] l = "l280" -> "SessionManager.close"
      [] l = "l281" -> "close_sessions"
      [] l = "l282" -> "LOOP.close"

InTry == {"l240", "l246", "l250", "l257", "l260", "l261", "l263", "l265", "l268", "l271", "l276"}

InFinally == {"l279", "l280", "l281", "l282"}

\* lines 318-320 on a platform other than win32: the loop's handler for SIGINT
\* and SIGTERM is launcher.cancel, whatever main() or cleanup() is doing
Handled ==
    /\ launcher' = CancelTask(launcher)
    /\ UNCHANGED <<cvars, cleanups>>

\* win32, where line 318 installs no handler: the signal raises
\* KeyboardInterrupt in the main thread. At line 322 it is caught by lines
\* 323-324 and the finally of line 325 calls cleanup(); inside cleanup() the
\* statement in progress raises it: in the try body it goes to the finally
\* block, in the finally block it leaves cleanup()
Interrupt ==
    \/ /\ pc = "main"
       /\ launcher' = CancelTask(launcher)
       /\ pc' = "l240"
       /\ cleanups' = cleanups + 1
       /\ UNCHANGED <<running, tasks, clock, awaited, cacheCells, dbq, pending, calls, exc, raised>>
    \/ /\ pc \in InTry
       /\ calls' = Log(CallAt(pc))
       /\ Finally("BaseException")
       /\ running' = (IF pc = "l240" THEN FALSE ELSE running)
       /\ awaited' = (IF pc = "l250" THEN "error" ELSE awaited)
       /\ clock' = (IF pc = "l250" THEN 0 ELSE clock)
       /\ UNCHANGED <<tasks, cacheCells, dbq, pending, raised, launcher, cleanups>>
    \/ /\ pc \in InFinally
       /\ calls' = Log(CallAt(pc))
       /\ pc' = "aborted"
       /\ raised' = "BaseException"
       /\ UNCHANGED <<running, tasks, clock, awaited, cacheCells, dbq, pending, exc, launcher, cleanups>>

\* SIGINT or SIGTERM is delivered to the coordinator process while main() is
\* at line 322 or inside cleanup()
Signal ==
    /\ pc \notin {"done", "aborted"}
    /\ sigs < MaxSignals
    /\ sigs' = sigs + 1
    /\ IF platform = "win32" THEN Interrupt ELSE Handled
    /\ UNCHANGED <<platform, qvars, svars>>

\* the statements of cleanup() itself
Orchestrator ==
    \/ Cancel \/ Gather \/ Await \/ RefreshDict \/ DumpAccounts \/ PickleForts
    \/ DumpCells \/ StopDb \/ UpdateSpawns \/ DrainPoll \/ Sleep
    \/ ManagerShutdown \/ SessionClose \/ CloseSessions \/ LoopClose

Next ==
    \/ LauncherEnds
    \/ Signal
    \/ CallCleanup
    \/ TaskDone
    \/ DbAdd
    \/ DbWrite
    \/ Tick
    \/ Cancel
    \/ Gather
    \/ Await
    \/ RefreshDict
    \/ DumpAccounts
    \/ PickleForts
    \/ DumpCells
    \/ StopDb
    \/ UpdateSpawns
    \/ DrainPoll
    \/ Sleep
    \/ ManagerShutdown
    \/ SessionClose
    \/ CloseSessions
    \/ LoopClose

\* ---------------------------------------------------------------- main(): start
\* processes started on one host with the same configured address (line 302)
Procs == {"a", "b"}

\* the typeids of lines 297-300
QueueIds == {"captcha_queue", "extra_queue"}
Typeids == QueueIds \cup {"worker_dict"}

Signals == {"SIGINT", "SIGTERM"}

NoLookup == [proc |-> "none", typeid |-> "none", result |-> "none"]

STypeOK ==
    /\ mpc \in [Procs -> {"l297", "l305", "l312", "l322", "failed", "exited"}]
    /\ mapWorkers \in [Procs -> BOOLEAN]
    /\ registry \in [Procs -> SUBSET Typeids]
    /\ bound \subseteq Procs
    /\ server \in [Procs -> {"none", "up", "dead", "stopped"}]
    /\ ignored \in [Procs -> SUBSET Signals]
    /\ delivered \in [Procs -> Seq(Signals)]
    /\ overseer \in [Procs -> BOOLEAN]
    /\ launched \in [Procs -> BOOLEAN]
    /\ cleaned \in [Procs -> BOOLEAN]
    /\ startError \in [Procs -> {"none", "OSError"}]
    /\ lookup \in [proc : Procs \cup {"none"}, typeid : Typeids \cup {"none"},
                    result : {"none", "proxy", "NotRegistered"}]

\* every process is about to run line 297; nobody holds the address
SInit ==
    /\ mpc = [p \in Procs |-> "l297"]
    /\ mapWorkers \in [Procs -> BOOLEAN]
    /\ registry = [p \in Procs |-> {}]
    /\ bound = {}
    /\ server = [p \in Procs |-> "none"]
    /\ ignored = [p \in Procs |-> {}]
    /\ delivered = [p \in Procs |-> <<>>]
    /\ overseer = [p \in Procs |-> FALSE]
    /\ launched = [p \in Procs |-> FALSE]
    /\ cleaned = [p \in Procs |-> FALSE]
    /\ startError = [p \in Procs |-> "none"]
    /\ lookup = NoLookup

\* a registration that publishes worker_dict whatever the flag says
RegisteredAlways(mw) == Typeids

\* lines 297-301: captcha_queue and extra_queue are registered; worker_dict is
\* registered if conf.MAP_WORKERS
Registered(mw) == QueueIds \cup (IF mw THEN {"worker_dict"} ELSE {})

\* lines 297-303
Register(p) ==
    /\ mpc[p] = "l297"
    /\ registry' = [registry EXCEPT ![p] = Registered(mapWorkers[p])]
    /\ mpc' = [mpc EXCEPT ![p] = "l305"]
    /\ UNCHANGED <<mapWorkers, bound, server, ignored, delivered, overseer, launched,
                   cleaned, startError, lookup, cvars, qvars, mvars>>

\* mgr_init (lines 183-184), run in the server process as it starts:
\* signal(SIGINT, SIG_IGN)
MgrInit == {"SIGINT"}

\* a start whose failure is swallowed: main() goes on to line 312
StartFailsIgnored(p) ==
    /\ mpc' = [mpc EXCEPT ![p] = "l312"]
    /\ UNCHANGED <<bound, server, ignored, overseer, launched, cleaned, startError>>

\* a start made inside the try of line 321: its failure runs cleanup()
StartFailsInTry(p) ==
    /\ mpc' = [mpc EXCEPT ![p] = "failed"]
    /\ startError' = [startError EXCEPT ![p] = "OSError"]
    /\ cleaned' = [cleaned EXCEPT ![p] = TRUE]
    /\ UNCHANGED <<bound, server, ignored, overseer, launched>>

\* lines 306-310: manager.start raised OSError or EOFError; main() raises
\* OSError with a message about the address, outside any try: main() ends
StartFails(p) ==
    /\ mpc' = [mpc EXCEPT ![p] = "failed"]
    /\ startError' = [startError EXCEPT ![p] = "OSError"]
    /\ UNCHANGED <<bound, server, ignored, overseer, launched, cleaned>>

\* lines 304-305: manager.start(mgr_init). The server process binds the address
\* if no live server holds it, and the operating system refuses the bind
\* otherwise
Start(p) ==
    /\ mpc[p] = "l305"
    /\ IF bound = {}
       THEN /\ bound' = {p}
            /\ server' = [server EXCEPT ![p] = "up"]
            /\ ignored' = [ignored EXCEPT ![p] = MgrInit]
            /\ mpc' = [mpc EXCEPT ![p] = "l312"]
            /\ UNCHANGED <<overseer, launched, cleaned, startError>>
       ELSE StartFails(p)
    /\ UNCHANGED <<mapWorkers, registry, delivered, lookup, cvars, qvars, mvars>>

\* lines 312-320: Overseer(manager), overseer.start, the launcher task, the
\* signal handlers
Proceed(p) ==
    /\ mpc[p] = "l312"
    /\ overseer' = [overseer EXCEPT ![p] = TRUE]
    /\ launched' = [launched EXCEPT ![p] = TRUE]
    /\ mpc' = [mpc EXCEPT ![p] = "l322"]
    /\ UNCHANGED <<mapWorkers, registry, bound, server, ignored, delivered, cleaned,
                   startError, lookup, cvars, qvars, mvars>>

\* lines 321-326 seen from outside the process: run_until_complete(launcher)
\* ends and cleanup() runs, where manager.shutdown() (line 279) stops the
\* server and gives the address up
Teardown(p) ==
    /\ mpc[p] = "l322"
    /\ cleaned' = [cleaned EXCEPT ![p] = TRUE]
    /\ server' = [server EXCEPT ![p] = IF server[p] = "up" THEN "stopped" ELSE server[p]]
    /\ bound' = bound \ {p}
    /\ mpc' = [mpc EXCEPT ![p] = "exited"]
    /\ UNCHANGED <<mapWorkers, registry, ignored, delivered, overseer, launched,
                   startError, lookup, cvars, qvars, mvars>>

\* a client connected to the server of p asks for typeid n: it gets a proxy
\* for a registered typeid and an error for any other
Lookup(p, n) ==
    /\ server[p] = "up"
    /\ lookup' = [proc |-> p, typeid |-> n,
                  result |-> IF n \in registry[p] THEN "proxy" ELSE "NotRegistered"]
    /\ UNCHANGED <<mpc, mapWorkers, registry, bound, server, ignored, delivered,
                   overseer, launched, cleaned, startError, cvars, qvars, mvars>>

\* signal sg is delivered to the server process of p: ignored if mgr_init set
\* it to SIG_IGN, and otherwise its default action ends the process, which
\* gives the address up
ServerSignal(p, sg) ==
    /\ server[p] = "up"
    /\ Len(delivered[p]) < MaxSignals
    /\ delivered' = [delivered EXCEPT ![p] = Append(@, sg)]
    /\ IF sg \in ignored[p]
       THEN UNCHANGED <<server, bound>>
       ELSE /\ server' = [server EXCEPT ![p] = "dead"]
            /\ bound' = bound \ {p}
    /\ UNCHANGED <<mpc, mapWorkers, registry, ignored, overseer, launched, cleaned,
                   startError, lookup, cvars, qvars, mvars>>

StartNext ==
    \/ \E p \in Procs : Register(p)
    \/ \E p \in Procs : Start(p)
    \/ \E p \in Procs : Proceed(p)
    \/ \E p \in Procs : Teardown(p)
    \/ \E p \in Procs, n \in Typeids : Lookup(p, n)
    \/ \E p \in Procs, sg \in Signals : ServerSignal(p, sg)

\* process a has bound the address and is at line 322, process b has not
\* started
Serving ==
    /\ mpc = [p \in Procs |-> IF p = "a" THEN "l322" ELSE "l297"]
    /\ mapWorkers = [p \in Procs |-> FALSE]
    /\ registry = [p \in Procs |-> IF p = "a" THEN Registered(FALSE) ELSE {}]
    /\ bound = {"a"}
    /\ server = [p \in Procs |-> IF p = "a" THEN "up" ELSE "none"]
    /\ ignored = [p \in Procs |-> IF p = "a" THEN MgrInit ELSE {}]
    /\ delivered = [p \in Procs |-> <<>>]
    /\ overseer = [p \in Procs |-> p = "a"]
    /\ launched = [p \in Procs |-> p = "a"]
    /\ cleaned = [p \in Procs |-> FALSE]
    /\ startError = [p \in Procs |-> "none"]
    /\ lookup = NoLookup

\* ---------------------------------------------------------------- CustomQueue
\* threads that call full_wait and put, and threads that call get
Producers == {"p1", "p2"}
Consumers == {"c1"}
Threads == Producers \cup Consumers

\* arguments of full_wait tried: maxsize, and timeout (<<>> is None)
Thresholds == {-1, 0, 1, 2}
TimeoutArgs == {<<>>, <<-1>>, <<0>>, <<1>>}

QTypeOK ==
    /\ queue \in Seq(1..MaxPuts)
    /\ nput \in 0..MaxPuts
    /\ got \in Seq(1..MaxPuts)
    /\ tpc \in [Threads -> {"idle", "l150", "l155", "l155w", "l164", "l164w", "l166",
                            "get_wait", "get_woken"}]
    /\ maxsize \in [Threads -> Thresholds]
    /\ timeout \in [Threads -> TimeoutArgs]
    /\ remaining \in [Threads -> 0..1]
    /\ res \in [Threads -> {"none", "ok", "Full", "ValueError", "put", "got"}]

\* _captcha_queue = CustomQueue() (line 170): empty, and unbounded for put
QInit ==
    /\ queue = <<>>
    /\ nput = 0
    /\ got = <<>>
    /\ tpc = [t \in Threads |-> "idle"]
    /\ maxsize = [t \in Threads |-> 0]
    /\ timeout = [t \in Threads |-> <<>>]
    /\ remaining = [t \in Threads |-> 0]
    /\ res = [t \in Threads |-> "none"]

\* the coordinator is process a, at line 322
Init == CInit /\ QInit /\ MInit /\ Serving

\* the queue with the coordinator at rest
QueueInit == Init /\ tasks = 0 /\ dbq = 0 /\ ~cacheCells /\ platform = "posix"

\* the processes at their start; the coordinator's teardown is not followed
StartInit == CInit /\ QInit /\ MInit /\ SInit /\ tasks = 0 /\ dbq = 0 /\ ~cacheCells /\ platform = "posix"

\* the threads inside self.not_full.wait() (lines 155, 164)
NotFullWaiters(p) == {t \in Producers : p[t] \in {"l155", "l164"}}

\* the threads inside self.not_empty.wait() of queue.Queue.get
NotEmptyWaiters(p) == {t \in Consumers : p[t] = "get_wait"}

\* where a thread is once its wait() has been notified: it has to take the
\* mutex again and test its loop condition
Woken(l) ==
    CASE l = "l155" -> "l155w"
      [] l = "l164" -> "l164w"
      [] l = "get_wait" -> "get_woken"

\* Condition.notify(): wakes one of the waiting threads, if there is one; the
\* results are the possible positions of the threads afterwards
Notify(p, waiters) ==
    IF waiters = {} THEN {p} ELSE {[p EXCEPT ![w] = Woken(p[w])] : w \in waiters}

\* a loop test that lets a queue holding exactly maxsize items pass
StillFullOffByOne(n, m) == n > m

\* lines 154, 160: while self._qsize() >= maxsize
StillFull(n, m) == n >= m

\* a deadline test with the sign turned round
ExpiredInverted(left) == left >= 0

\* line 162: if remaining <= 0.0
Expired(left) == left <= 0

\* a test that lets -1 through
NegativeTimeoutLax(n) == n < -1

\* line 156: elif timeout < 0
NegativeTimeout(n) == n < 0

\* line 152: if maxsize > 0
Bounded(m) == m > 0

ResetArgs(t) ==
    /\ maxsize' = [maxsize EXCEPT ![t] = 0]
    /\ timeout' = [timeout EXCEPT ![t] = <<>>]
    /\ remaining' = [remaining EXCEPT ![t] = 0]

\* raise ValueError / raise Full (lines 157, 163): the call ends, the mutex is
\* released by the with statement
FwRaise(t, error) ==
    /\ tpc' = [tpc EXCEPT ![t] = "idle"]
    /\ res' = [res EXCEPT ![t] = error]
    /\ ResetArgs(t)
    /\ UNCHANGED <<queue, nput, got>>

\* self.not_full.wait(...) (lines 155, 164): the mutex is released and the
\* thread waits to be notified, or for `left` to pass
FwBlock(t, at, left) ==
    /\ tpc' = [tpc EXCEPT ![t] = at]
    /\ remaining' = [remaining EXCEPT ![t] = left]
    /\ UNCHANGED <<queue, nput, got, maxsize, timeout, res>>

\* a full_wait that takes the oldest item off the queue as it succeeds
FwLeaveTaking(t) ==
    /\ tpc' \in Notify([tpc EXCEPT ![t] = "l166"], NotEmptyWaiters(tpc))
    /\ remaining' = [remaining EXCEPT ![t] = 0]
    /\ queue' = (IF queue = <<>> THEN queue ELSE Tail(queue))
    /\ UNCHANGED <<nput, got, maxsize, timeout, res>>

\* line 165 and the end of the with block: self.not_empty.notify(), then the
\* mutex is released; lines 166-167 are still to run
FwLeave(t) ==
    /\ tpc' \in Notify([tpc EXCEPT ![t] = "l166"], NotEmptyWaiters(tpc))
    /\ remaining' = [remaining EXCEPT ![t] = 0]
    /\ UNCHANGED <<queue, nput, got, maxsize, timeout, res>>

\* lines 154-155 and 160-165: one test of the while loop, made holding the
\* mutex; `left` is endtime - time.monotonic()
FwLoop(t, left) ==
    IF Bounded(maxsize[t]) /\ StillFull(Len(queue), maxsize[t])
    THEN IF timeout[t] = <<>>
         THEN FwBlock(t, "l155", 0)
         ELSE IF Expired(left) THEN FwRaise(t, "Full") ELSE FwBlock(t, "l164", left)
    ELSE FwLeave(t)

\* full_wait(maxsize, timeout) is called: line 150
FullWait(t, m, to) ==
    /\ t \in Producers
    /\ tpc[t] = "idle"
    /\ tpc' = [tpc EXCEPT ![t] = "l150"]
    /\ maxsize' = [maxsize EXCEPT ![t] = m]
    /\ timeout' = [timeout EXCEPT ![t] = to]
    /\ res' = [res EXCEPT ![t] = "none"]
    /\ UNCHANGED <<queue, nput, got, remaining, cvars, mvars, svars>>

\* lines 151-165 up to the first wait: with self.not_full: if maxsize > 0: ...
\* (line 159: endtime = time.monotonic() + timeout)
FwEnter(t) ==
    /\ tpc[t] = "l150"
    /\ IF Bounded(maxsize[t]) /\ timeout[t] # <<>>
       THEN IF NegativeTimeout(timeout[t][1])
            THEN FwRaise(t, "ValueError")
            ELSE FwLoop(t, timeout[t][1])
       ELSE FwLoop(t, 0)
    /\ UNCHANGED <<cvars, mvars, svars>>

\* a notified waiter has the mutex again and tests its loop condition
FwWake(t) ==
    /\ tpc[t] \in {"l155w", "l164w"}
    /\ FwLoop(t, remaining[t])
    /\ UNCHANGED <<cvars, mvars, svars>>

\* self.not_full.wait(remaining) timed out (line 164): the waiter takes the
\* mutex again and tests its loop condition
FwTimedOut(t) ==
    /\ tpc[t] = "l164"
    /\ remaining[t] <= 0
    /\ FwLoop(t, remaining[t])
    /\ UNCHANGED <<cvars, mvars, svars>>

\* lines 166-167, outside the with block: the call returns the elapsed time
FwReturn(t) ==
    /\ tpc[t] = "l166"
    /\ tpc' = [tpc EXCEPT ![t] = "idle"]
    /\ res' = [res EXCEPT ![t] = "ok"]
    /\ ResetArgs(t)
    /\ UNCHANGED <<queue, nput, got, cvars, mvars, svars>>

\* put on a queue built with a capacity of 2: it only goes ahead below it
PutBounded(t) ==
    /\ t \in Producers
    /\ tpc[t] = "idle"
    /\ nput < MaxPuts
    /\ Len(queue) < 2
    /\ queue' = Append(queue, nput + 1)
    /\ nput' = nput + 1
    /\ tpc' \in Notify(tpc, NotEmptyWaiters(tpc))
    /\ res' = [res EXCEPT ![t] = "put"]
    /\ UNCHANGED <<got, maxsize, timeout, remaining, cvars, mvars, svars>>

\* queue.Queue.put on a queue built with maxsize = 0 (line 170): there is no
\* capacity to wait for; append, not_empty.notify()
Put(t) ==
    /\ t \in Producers
    /\ tpc[t] = "idle"
    /\ nput < MaxPuts
    /\ queue' = Append(queue, nput + 1)
    /\ nput' = nput + 1
    /\ tpc' \in Notify(tpc, NotEmptyWaiters(tpc))
    /\ res' = [res EXCEPT ![t] = "put"]
    /\ UNCHANGED <<got, maxsize, timeout, remaining, cvars, mvars, svars>>

\* a get that takes the newest item (queue.LifoQueue)
GetLoopLifo(t) ==
    IF Len(queue) = 0
    THEN /\ tpc' = [tpc EXCEPT ![t] = "get_wait"]
         /\ res' = [res EXCEPT ![t] = "none"]
         /\ UNCHANGED <<queue, got>>
    ELSE /\ queue' = SubSeq(queue, 1, Len(queue) - 1)
         /\ got' = Append(got, queue[Len(queue)])
         /\ tpc' \in Notify([tpc EXCEPT ![t] = "idle"], NotFullWaiters(tpc))
         /\ res' = [res EXCEPT ![t] = "got"]

\* queue.Queue.get holding the mutex: while not self._qsize(): not_empty.wait();
\* item = popleft(); not_full.notify()
GetLoop(t) ==
    IF Len(queue) = 0
    THEN /\ tpc' = [tpc EXCEPT ![t] = "get_wait"]
         /\ res' = [res EXCEPT ![t] = "none"]
         /\ UNCHANGED <<queue, got>>
    ELSE /\ queue' = Tail(queue)
         /\ got' = Append(got, Head(queue))
         /\ tpc' \in Notify([tpc EXCEPT ![t] = "idle"], NotFullWaiters(tpc))
         /\ res' = [res EXCEPT ![t] = "got"]

Get(t) ==
    /\ t \in Consumers
    /\ tpc[t] = "idle"
    /\ GetLoop(t)
    /\ UNCHANGED <<nput, maxsize, timeout, remaining, cvars, mvars, svars>>

GetWake(t) ==
    /\ tpc[t] = "get_woken"
    /\ GetLoop(t)
    /\ UNCHANGED <<nput, maxsize, timeout, remaining, cvars, mvars, svars>>

\* time.monotonic() advances: the time left to every deadline shrinks
Timed(t) == tpc[t] \in {"l164", "l164w"} /\ remaining[t] > 0

QTick ==
    /\ \E t \in Threads : Timed(t)
    /\ remaining' = [t \in Threads |-> IF Timed(t) THEN remaining[t] - 1 ELSE remaining[t]]
    /\ UNCHANGED <<queue, nput, got, tpc, maxsize, timeout, res, cvars, mvars, svars>>

QNext ==
    \/ \E t \in Threads, m \in Thresholds, to \in TimeoutArgs : FullWait(t, m, to)
    \/ \E t \in Threads : FwEnter(t)
    \/ \E t \in Threads : FwWake(t)
    \/ \E t \in Threads : FwTimedOut(t)
    \/ \E t \in Threads : FwReturn(t)
    \/ \E t \in Threads : Put(t)
    \/ \E t \in Threads : Get(t)
    \/ \E t \in Threads : GetWake(t)
    \/ QTick

\* ---- producers that put only directly after their own full_wait(N, None)
\* a put by a thread whose last call was a full_wait that returned
GuardedPut(t) ==
    /\ res[t] = "ok"
    /\ Put(t)

GuardedNext ==
    \/ \E t \in Producers : FullWait(t, Threshold, <<>>)
    \/ \E t \in Threads : FwEnter(t)
    \/ \E t \in Threads : FwWake(t)
    \/ \E t \in Threads : FwReturn(t)
    \/ \E t \in Threads : GuardedPut(t)
    \/ \E t \in Threads : Get(t)
    \/ \E t \in Threads : GetWake(t)

Spec == Init /\ [][Next]_vars

\* fairness of the coordinator's own statements and of the passing of time;
\* none for the tasks or for the database writer
LiveSpec == Init /\ [][Next]_vars /\ WF_vars(Orchestrator) /\ WF_vars(Tick) /\ WF_vars(CallCleanup)

QueueSpec == QueueInit /\ [][QNext]_vars

\* a thread that can run is run, and time passes; nothing obliges a thread to
\* make a new call
QueueLiveSpec ==
    /\ QueueInit /\ [][QNext]_vars
    /\ \A t \in Producers :
        /\ WF_vars(FwEnter(t))
        /\ WF_vars(FwWake(t))
        /\ WF_vars(FwTimedOut(t))
        /\ WF_vars(FwReturn(t))
    /\ \A t \in Consumers : WF_vars(GetWake(t))
    /\ WF_vars(QTick)

GuardedSpec == QueueInit /\ [][GuardedNext]_vars

StartSpec == StartInit /\ [][StartNext]_vars

\* ---------------------------------------------------------------- claims
Terminated == pc \in {"done", "aborted"}

Closing == DrainState \in {"ClosingResources", "Done"}

\* C1: whichever statement of the try body raised, the exception is held by
\* the finally block, so the resource release (ClosingResources) is started:
\* an exception that left the try body is only ever seen at or after line 279,
\* and cleanup() never ends without manager.shutdown() having been called.
C1_ReleaseAlwaysStarted ==
    /\ exc # "none" => Closing
    /\ Terminated => Called("manager.shutdown")

\* C1 witness: refresh_dict raised, the later steps were skipped, and the
\* release ran to the end
C1_Witness ==
    /\ pc = "done"
    /\ exc # "none"
    /\ Called("refresh_dict")
    /\ ~Called("dump_accounts")
    /\ Called("manager.shutdown")
    /\ Called("LOOP.close")

\* C2 (as claimed): once one artifact write has been attempted, every artifact
\* write has been attempted by the time the release starts, whether or not a
\* write raised.
C2_EachArtifactAttempted ==
    (Closing /\ Called("dump_accounts")) =>
        /\ Called("FORT_CACHE.pickle")
        /\ cacheCells => Called("dump_cells")

\* C3 (as claimed): an exception of a step of the try body is contained at
\* that step: every step of the sequence has been executed when the release
\* starts, and no exception is left to propagate out of cleanup().
C3_StepFailuresContained ==
    Closing =>
        /\ exc = "none"
        /\ Called("run_until_complete")
        /\ Called("refresh_dict")
        /\ Called("dump_accounts")
        /\ Called("FORT_CACHE.pickle")
        /\ Called("DB_PROC.stop")
        /\ Called("SPAWNS.update")
        /\ Called("queue.empty")

\* the calls of cleanup() in the order of the source text
CallOrder == <<"running=False", "create_task", "run_until_complete", "refresh_dict",
               "dump_accounts", "FORT_CACHE.pickle", "dump_cells", "DB_PROC.stop",
               "SPAWNS.update", "queue.empty", "sleep", "manager.shutdown",
               "SessionManager.close", "close_sessions", "LOOP.close">>

Position(c) == CHOOSE i \in 1..Len(CallOrder) : CallOrder[i] = c

\* C4: DrainState only moves forward in the order Running .. Done (no state
\* is revisited), every call is made while DrainState is the step the call
\* belongs to, and the calls made are in the order of the sequence (running
\* flag first, then await, refresh_dict, dumps, DB_PROC.stop, drain poll,
\* release), none of them made twice.
C4_StepsInOrder ==
    /\ [](calls # <<>> => (calls[1] = "running=False" /\ ~running))
    /\ [][Rank(DrainStateAt(pc')) >= Rank(DrainState)]_vars
    /\ [][calls' # calls => StepOf(calls'[Len(calls')]) = DrainState]_vars
    /\ [](\A i, j \in 1..Len(calls) : i < j => Position(calls[i]) < Position(calls[j]))

\* C4 witness: a teardown in which no step raised ran every step, ending in Done
C4_Witness ==
    /\ pc = "done"
    /\ exc = "none"
    /\ cacheCells
    /\ Len(calls) = Len(CallOrder)

\* C5 (as claimed): however the await ended, cleanup() goes on to Persisting.
C5_AwaitEndProceeds ==
    awaited # "none" => (pc = "l257" \/ Called("refresh_dict"))

\* C6 (as claimed): once cleanup() has started, the orchestrator eventually
\* reaches ClosingResources, which reaching Done requires, under fairness of
\* its own steps only, also when the database writer's queue never empties.
C6_ReachesClosing == (pc # "main") ~> Closing

\* the threads blocked in not_full.wait(), notified or not
Waiting(t) == tpc[t] \in {"l155", "l155w", "l164", "l164w"}

\* a step of thread t's own full_wait call that tests the loop condition (a
\* notify by another thread moves t from l155/l164 to l155w/l164w)
Tests(t) ==
    /\ tpc[t] \in {"l150", "l155w", "l164", "l164w"}
    /\ tpc'[t] # tpc[t]
    /\ ~(tpc[t] = "l164" /\ tpc'[t] = "l164w")

\* C7 (as claimed): full_wait returns (line 167) only in a state where
\* occupancy < maxsize or maxsize <= 0.
C7_ReturnsBelowThreshold ==
    [][\A t \in Producers :
        (tpc[t] = "l166" /\ tpc'[t] = "idle") =>
            (Len(queue) < maxsize[t] \/ maxsize[t] <= 0)]_vars

\* C7 (amended): full_wait leaves its with block on the success path only in a
\* state where occupancy < maxsize or maxsize <= 0, and with maxsize <= 0 it
\* goes from its call straight to the return without ever waiting; occupancy
\* may rise again between the release of the mutex and the return.
C7_LeavesMonitorBelowThreshold ==
    /\ [][\A t \in Producers :
            (tpc[t] # "l166" /\ tpc'[t] = "l166") =>
                (Len(queue') < maxsize'[t] \/ maxsize'[t] <= 0)]_vars
    /\ [][\A t \in Producers :
            (tpc[t] = "l150" /\ tpc'[t] # "l150" /\ maxsize[t] <= 0) =>
                tpc'[t] = "l166"]_vars
    /\ [](\A t \in Producers : Waiting(t) => maxsize[t] > 0)

\* C7 witness: a waiter with no timeout has left the with block after a
\* dequeue brought the occupancy below its threshold
C7_Witness ==
    \E t \in Producers :
        /\ tpc[t] = "l166"
        /\ timeout[t] = <<>>
        /\ maxsize[t] > 0
        /\ Len(queue) > 0
        /\ Len(queue) < maxsize[t]
        /\ Len(got) > 0

\* C8 (as claimed): a waiter with timeout None does not stay blocked for ever
\* while occupancy is, and stays, below its threshold.
C8_EachWaiterReleased ==
    \A w \in Producers :
        []<>~(tpc[w] \in {"l155", "l155w"} /\ Len(queue) < maxsize[w])

\* C9: full_wait(maxsize > 0, timeout >= 0) raises Full only at a test of the
\* loop made with the deadline elapsed and occupancy >= maxsize, at such a
\* test it always raises Full, it succeeds only when occupancy < maxsize, and
\* the call always ends: it does not stay blocked when nothing is dequeued.
C9_FullExactlyOnElapsedDeadline ==
    /\ [][\A t \in Producers :
            (Tests(t) /\ Bounded(maxsize[t]) /\ timeout[t] # <<>> /\ timeout[t][1] >= 0) =>
                LET left == IF tpc[t] = "l150" THEN timeout[t][1] ELSE remaining[t]
                IN  /\ res'[t] = "Full" <=> (left <= 0 /\ Len(queue) >= maxsize[t])
                    /\ tpc'[t] = "l166" <=> Len(queue) < maxsize[t]]_vars
    /\ [][\A t \in Producers :
            (res'[t] = "Full" /\ res[t] # "Full") =>
                (Tests(t) /\ Bounded(maxsize[t]) /\ timeout[t] # <<>> /\ timeout[t][1] >= 0)]_vars
    /\ \A t \in Producers :
            (tpc[t] = "l150" /\ timeout[t] # <<>>) ~> (tpc[t] = "idle")

\* C9 witness: a call has ended with Full on a queue that holds items and that
\* no consumer has touched
C9_Witness ==
    \E t \in Producers :
        /\ res[t] = "Full"
        /\ Len(queue) > 0
        /\ got = <<>>
        /\ \A c \in Consumers : tpc[c] = "idle"

\* C10 (as claimed): with a negative timeout full_wait raises ValueError at
\* once, whatever maxsize and the occupancy are.
C10_NegativeTimeoutRejected ==
    [][\A t \in Producers :
        (tpc[t] = "l150" /\ tpc'[t] # "l150" /\ timeout[t] # <<>> /\ timeout[t][1] < 0) =>
            (res'[t] = "ValueError" /\ tpc'[t] = "idle")]_vars

\* C10 (amended): with a negative timeout full_wait raises ValueError at once,
\* without waiting, whatever the occupancy is, when maxsize > 0; when
\* maxsize <= 0 the timeout is not looked at and the call succeeds at once.
\* ValueError is raised in no other case.
C10_NegativeTimeoutRejectedIfBounded ==
    /\ [][\A t \in Producers :
            (tpc[t] = "l150" /\ tpc'[t] # "l150" /\ timeout[t] # <<>> /\ timeout[t][1] < 0) =>
                IF maxsize[t] > 0
                THEN res'[t] = "ValueError" /\ tpc'[t] = "idle" /\ queue' = queue
                ELSE res'[t] = "none" /\ tpc'[t] = "l166" /\ queue' = queue]_vars
    /\ [][\A t \in Producers :
            (res'[t] = "ValueError" /\ res[t] # "ValueError") =>
                (tpc[t] = "l150" /\ timeout[t] # <<>> /\ timeout[t][1] < 0 /\ maxsize[t] > 0)]_vars

\* C10 witness: a call with a negative timeout and maxsize <= 0 has passed the
\* with block on a queue that holds items
C10_Witness ==
    \E t \in Producers :
        /\ tpc[t] = "l166"
        /\ timeout[t] = <<-1>>
        /\ maxsize[t] <= 0
        /\ Len(queue) > 0

\* C11: the occupancy of the queue is the number of completed puts less the
\* number of completed gets and is never negative, and put never waits: a
\* thread that is free to call put can complete it in any state, whatever the
\* occupancy and whatever thresholds the waiters in full_wait hold.
C11_OccupancyAndFreePut ==
    /\ Len(queue) = nput - Len(got)
    /\ nput >= Len(got)
    /\ \A t \in Producers : (tpc[t] = "idle" /\ nput < MaxPuts) => ENABLED Put(t)

\* C11 witness: puts have completed at and above the threshold a waiter in
\* full_wait is holding
C11_Witness ==
    \E t, u \in Producers :
        /\ tpc[t] = "l155"
        /\ maxsize[t] = 1
        /\ Len(queue) = 3
        /\ res[u] = "put"

\* C12: items leave in the order their puts completed and each at most once:
\* the items got so far, followed by the items still queued, are the items
\* put, in order; every get takes the head of the queue. full_wait calls
\* interleave freely with the puts and gets.
C12_Fifo ==
    /\ [](got \o queue = [i \in 1..nput |-> i])
    /\ [][got' # got => (queue # <<>> /\ got' = Append(got, Head(queue)) /\ queue' = Tail(queue))]_vars

\* C12 witness: two items have been got in order while a third is queued and
\* a full_wait call is in progress
C12_Witness ==
    /\ got = <<1, 2>>
    /\ queue = <<3>>
    /\ \E t \in Producers : tpc[t] \in {"l155", "l155w", "l164", "l164w", "l166"}

\* a step of thread t inside its full_wait call (being notified by another
\* thread is not a step of t)
FwStep(t) ==
    /\ tpc[t] \in {"l150", "l155w", "l164", "l164w", "l166"}
    /\ tpc'[t] # tpc[t]
    /\ ~(tpc[t] = "l164" /\ tpc'[t] = "l164w")

\* C19: no step of full_wait changes the queue, whether the call returns at
\* once, returns after waiting, raises ValueError or raises Full; and a
\* consumer waiting in get that the notify of line 165 wakes on an empty queue
\* goes back to waiting: get only ever returns an item that was in the queue.
C19_FullWaitLeavesQueue ==
    /\ [][\A t \in Producers : FwStep(t) => UNCHANGED <<queue, nput, got>>]_vars
    /\ [][\A t \in Producers : (tpc[t] = "idle" /\ tpc'[t] = "l150") => UNCHANGED <<queue, nput, got>>]_vars
    /\ [][\A c \in Consumers :
            (tpc[c] = "get_woken" /\ tpc'[c] # "get_woken" /\ queue = <<>>) =>
                (tpc'[c] = "get_wait" /\ res'[c] # "got" /\ UNCHANGED <<queue, nput, got>>)]_vars
    /\ [][\A c \in Consumers : (res'[c] = "got" /\ res[c] # "got") => queue # <<>>]_vars

\* C19 witness: nothing was ever put, a full_wait has passed line 165, and the
\* consumer its notify woke is about to test the empty queue
C19_Witness ==
    /\ nput = 0
    /\ queue = <<>>
    /\ \E t \in Producers : tpc[t] = "l166"
    /\ \E c \in Consumers : tpc[c] = "get_woken"

\* C20: when every put directly follows a successful full_wait(Threshold, None)
\* of the same thread, one put per wait, the occupancy never exceeds
\* Threshold - 1 plus the number of producers.
C20_OvershootBounded == Len(queue) <= Threshold - 1 + Cardinality(Producers)

\* C20 witness: the bound is met: every producer passed its wait below the
\* threshold and has put since
C20_Witness ==
    /\ Len(queue) = Threshold - 1 + Cardinality(Producers)
    /\ \A t \in Producers : res[t] = "put"

\* C18 (as claimed): a release call that raises does not keep the later ones
\* from running: whenever cleanup() has ended, manager.shutdown(),
\* SessionManager.close(), close_sessions() and LOOP.close() have each been
\* called.
C18_EachReleaseAttempted ==
    Terminated =>
        /\ Called("manager.shutdown")
        /\ Called("SessionManager.close")
        /\ Called("close_sessions")
        /\ Called("LOOP.close")

\* the coordinator has passed line 305 and has not yet run cleanup()
Serves(p) == mpc[p] \in {"l312", "l322"}

\* C13: of the processes that start on one address at most one holds it at a
\* time. A start made while a live server holds the address fails: main()
\* raises OSError and ends, and the start changes nothing of the holder, whose
\* server stays bound and up; a process only goes past line 305 by binding an
\* address that was free.
C13_OneHolder ==
    /\ [](Cardinality(bound) <= 1)
    /\ [](\A p \in Procs : Serves(p) => server[p] \in {"up", "dead"})
    /\ [][\A p \in Procs : (mpc[p] = "l305" /\ mpc'[p] # "l305") =>
            IF bound = {}
            THEN mpc'[p] = "l312" /\ bound' = {p} /\ server'[p] = "up"
            ELSE /\ mpc'[p] = "failed"
                 /\ startError'[p] = "OSError"
                 /\ UNCHANGED <<bound, server, registry, ignored>>]_vars

\* C13 witness: b failed to start on the address a holds, and a client of a
\* still gets its proxies
C13_Witness ==
    /\ mpc["b"] = "failed"
    /\ startError["b"] = "OSError"
    /\ bound = {"a"}
    /\ server["a"] = "up"
    /\ delivered["a"] = <<>>
    /\ lookup = [proc |-> "a", typeid |-> "captcha_queue", result |-> "proxy"]

\* C14: a process whose start failed has raised OSError and has done nothing
\* of lines 312-326: no Overseer, no launcher task, no cleanup() (so no dump,
\* no DB_PROC.stop(), no manager.shutdown()), and it has no server.
C14_FailedStartDoesNothing ==
    \A p \in Procs :
        mpc[p] = "failed" =>
            /\ startError[p] = "OSError"
            /\ ~overseer[p]
            /\ ~launched[p]
            /\ ~cleaned[p]
            /\ server[p] = "none"

\* C14 witness: one process failed to start and ran no cleanup(), the other
\* one started, ran, and has been through cleanup()
C14_Witness ==
    \E p, q \in Procs :
        /\ mpc[p] = "failed"
        /\ ~cleaned[p]
        /\ mpc[q] = "exited"
        /\ overseer[q]
        /\ cleaned[q]

\* C15: once lines 297-301 have run, captcha_queue and extra_queue are
\* registered, and worker_dict is registered exactly if conf.MAP_WORKERS; a
\* lookup of either queue gets a proxy, and a lookup of worker_dict fails with
\* NotRegistered exactly if the flag is off.
C15_WorkerDictIffFlag ==
    /\ \A p \in Procs :
          mpc[p] # "l297" =>
              /\ QueueIds \subseteq registry[p]
              /\ "worker_dict" \in registry[p] <=> mapWorkers[p]
    /\ lookup # NoLookup =>
          /\ lookup.result \in {"proxy", "NotRegistered"}
          /\ lookup.result = "NotRegistered" <=>
                (lookup.typeid = "worker_dict" /\ ~mapWorkers[lookup.proc])

\* C15 witness: with the flag off a client was refused worker_dict
C15_Witness ==
    \E p \in Procs :
        /\ ~mapWorkers[p]
        /\ server[p] = "up"
        /\ lookup = [proc |-> p, typeid |-> "worker_dict", result |-> "NotRegistered"]

\* C16 (as claimed): cleanup() is called once per run, however the launcher
\* ends, and a signal that arrives once cancellation has been asked for, or
\* while cleanup() runs, changes nothing of what the coordinator is doing: it
\* starts no second cleanup() and neither ends nor alters the one in progress.
C16_OneDrainSignalsIgnored ==
    /\ [](cleanups <= 1)
    /\ [](pc # "main" => cleanups = 1)
    /\ [][(sigs' # sigs /\ launcher # "pending") => launcher' = launcher]_vars
    /\ [][(sigs' # sigs /\ pc # "main") =>
            UNCHANGED <<pc, running, awaited, calls, exc, raised, cleanups, launcher>>]_vars

\* C17 (as claimed): neither SIGINT nor SIGTERM delivered to the manager's
\* server process stops it: while its coordinator is between line 305 and the
\* manager.shutdown() of cleanup(), the server is up.
C17_ServerOutlivesSignals == \A p \in Procs : Serves(p) => server[p] = "up"

====
